---- MODULE Spec2Model ----
(***************************************************************************)
(* Model of web-locks.js: named locks shared between the main thread and   *)
(* worker threads.  A Lock is backed by one Int32 cell of a                *)
(* SharedArrayBuffer (the flag); every thread keeps its own Lock objects,  *)
(* queues and registry (LockManager.collection) and the threads talk by    *)
(* postMessage through the main thread.                                    *)
(*                                                                         *)
(* Every thread runs its callbacks to completion, one at a time; threads   *)
(* run in parallel with each other and meet only at the Atomics calls on   *)
(* the flag.  A callback is therefore cut at its Atomics calls: the part   *)
(* of it that is still to run is kept, as a call stack, in stack[c], and   *)
(* thread c starts no other callback before that stack is empty again.     *)
(*                                                                         *)
(* A handler returns a promise, which settles in a later callback.  An     *)
(* exception that no .catch takes ends the callback it is thrown in and    *)
(* leaves the state as it is; the event loop of the thread goes on (an     *)
(* 'uncaughtException' handler): a thread that stops instead takes no      *)
(* further step, which is a behaviour of this model as well.               *)
(*                                                                         *)
(* task[t] also keeps what happened to request t: the calls of resolve or  *)
(* reject (calls, outcome), the handler invocations with the Lock and with *)
(* null (lockCalls, nullCalls), the outcome of handler(this) (hres); and   *)
(* lk[l].cur is the task that owner was last set for.                      *)
(***************************************************************************)
EXTENDS Naturals, Sequences, FiniteSets

\* ------------------------------------------------------------- constants
LOCKED == 0
UNLOCKED == 1

\* the bounds of the model: the number of calls of locks.request, in Spec, in
\* SpecDeep and in SpecRelay
MaxReq == 2
MaxReqDeep == 3
MaxReqRelay == 2

\* the main thread (isMainThread)
Hub == "main"

Names == {"n"}
Modes == {"exclusive", "shared"}

\* ------------------------------------------------------------- state
VARIABLES
  flag,        \* flag[b]: the Int32 cell of SharedArrayBuffer b
  lk,          \* lk[l]: the Lock objects, in order of construction
  collection,  \* collection[c][name]: LockManager.collection of thread c (0: none)
  task,        \* task[t]: the request calls and the task each one made
  run,         \* the handler invocations whose promise is still pending
  timers,      \* timers[c]: the setTimeout(..., 0) callbacks of thread c, in order
  chan,        \* chan[w].up: worker w to main, chan[w].down: main to worker w
  stack        \* stack[c]: the rest of the callback thread c is running

vars == <<flag, lk, collection, task, run, timers, chan, stack>>

\* the workers attached to the main thread (this.workers), each with its port,
\* and the threads
Workers == DOMAIN chan
Ctx == {Hub} \cup Workers

\* ------------------------------------------------------------- Lock
NoLock == 0
NoTask == 0

\* Lock.constructor
NewLock(c, name, mode, b) ==
  [ctx |-> c, name |-> name, mode |-> mode, queue |-> <<>>,
   owner |-> FALSE, trying |-> FALSE, buffer |-> b, cur |-> NoTask]

\* the frames of a call stack
Frame(op, l, t, how) == [op |-> op, lock |-> l, task |-> t, how |-> how]
TryEnterFrame(l) == Frame("tryEnter", l, NoTask, "-")
LeaveFrame(l) == Frame("leave", l, NoTask, "-")
SettleFrame(t, how) == Frame("settle", NoTask, t, how)
CatchFrame(l, t) == Frame("catch", l, t, "-")

\* resolve / reject: the promise keeps the first settlement
Settle(tk, t, how) ==
  [tk EXCEPT ![t].calls = @ + 1,
             ![t].outcome = IF tk[t].calls = 0 THEN how ELSE @]

\* LockManager.send
Send(ch, c, m) ==
  IF c = Hub
    THEN [w \in Workers |-> [ch[w] EXCEPT !.down = Append(@, m)]]
    ELSE [ch EXCEPT ![c].up = Append(@, m)]

\* a relay that posts the message to every worker, its sender too
RelayAll(ch, from, m) ==
  [w \in Workers |-> [ch[w] EXCEPT !.down = Append(@, m)]]

\* the relay of LockManager.attach
Relay(ch, from, m) ==
  [w \in Workers |-> IF w # from THEN [ch[w] EXCEPT !.down = Append(@, m)] ELSE ch[w]]

CreateMsg(name, mode, b) == [kind |-> "create", name |-> name, mode |-> mode, buffer |-> b]
LeaveMsg(name) == [kind |-> "leave", name |-> name, mode |-> "-", buffer |-> 0]

\* a queue that takes the new task at its head (unshift for push)
QueueUnshift(q, t) == <<t>> \o q

\* queue.push, queue.shift
QueuePush(q, t) == Append(q, t)
QueueHead(q) == Head(q)
QueueShift(q) == Tail(q)

\* an exchange that is taken as won whatever it returned
ExchangeAlways(prev) == TRUE

\* Atomics.exchange(flag, 0, LOCKED) returned UNLOCKED
ExchangeWon(prev) == prev # LOCKED

\* a tryEnter that does not look at the signal
SignalIgnored(tk) == FALSE

\* signal.aborted of the task's signal
SignalAborted(tk) == tk.aborted

\* a leave() that ends with the broadcast
LeaveOnly(l) == <<>>

\* what leave() goes on with after the flag is released
LeaveNext(l) == <<TryEnterFrame(l)>>

\* the state the callbacks work on, and its update
Cur ==
  [flag |-> flag, lk |-> lk, task |-> task, run |-> run, chan |-> chan, stack |-> stack]

Commit(st) ==
  /\ flag' = st.flag
  /\ lk' = st.lk
  /\ task' = st.task
  /\ run' = st.run
  /\ chan' = st.chan
  /\ stack' = st.stack

Push(st, c, fs) == [st EXCEPT !.stack[c] = fs \o @]

RECURSIVE Unwind(_)
\* an exception leaves the frames up to the nearest .catch((err) => {leave(); reject(err)})
Unwind(s) ==
  IF s = <<>> THEN <<>>
  ELSE IF Head(s).op = "catch"
       THEN <<LeaveFrame(Head(s).lock), SettleFrame(Head(s).task, "type")>> \o Tail(s)
       ELSE Unwind(Tail(s))

\* Lock.tryEnter in thread c
DoTryEnter(st, c, l) ==
  LET L == st.lk[l]
      b == L.buffer
      t == QueueHead(L.queue)
      won == [st EXCEPT !.flag[b] = LOCKED,
                        !.lk[l].owner = TRUE, !.lk[l].trying = FALSE,
                        !.lk[l].queue = QueueShift(@), !.lk[l].cur = t,
                        !.task[t].entered = TRUE]
  IN IF L.queue = <<>> THEN st
     ELSE IF ~ExchangeWon(st.flag[b]) THEN [st EXCEPT !.flag[b] = LOCKED]
     ELSE IF st.task[t].signal = "none"
       THEN \* signal.aborted of null: TypeError
            [won EXCEPT !.stack[c] = Unwind(@)]
     ELSE IF SignalAborted(st.task[t])
       THEN Push(won, c, <<LeaveFrame(l)>>
                         \o (IF st.task[t].rejected THEN <<>> ELSE <<SettleFrame(t, "abort")>>))
     ELSE [won EXCEPT !.task[t].lockCalls = @ + 1,
                      !.run = @ \cup {[task |-> t, arg |-> "lock", k |-> 1]}]

\* Lock.leave in thread c
DoLeave(st, c, l) ==
  IF ~st.lk[l].owner THEN st
  ELSE Push([st EXCEPT !.flag[st.lk[l].buffer] = UNLOCKED,
                       !.lk[l].owner = FALSE,
                       !.chan = Send(@, c, LeaveMsg(st.lk[l].name))],
            c, LeaveNext(l))

\* the frame on top of the stack of thread c is run
Exec(st, c) ==
  LET f == Head(st.stack[c])
      rest == [st EXCEPT !.stack[c] = Tail(@)]
  IN CASE f.op = "tryEnter" -> DoTryEnter(rest, c, f.lock)
       [] f.op = "leave" -> DoLeave(rest, c, f.lock)
       [] f.op = "settle" -> [rest EXCEPT !.task = Settle(@, f.task, f.how)]
       [] OTHER -> rest

\* the frame calls Atomics.exchange or Atomics.store
Atomic(st, f) ==
  \/ f.op = "tryEnter" /\ st.lk[f.lock].queue # <<>>
  \/ f.op = "leave" /\ st.lk[f.lock].owner

RECURSIVE Drain(_, _)
\* thread c runs on to its next Atomics call, or to the end of the callback
Drain(st, c) ==
  IF st.stack[c] = <<>> \/ Atomic(st, Head(st.stack[c])) THEN st
  ELSE Drain(Exec(st, c), c)

\* one part of a callback of thread c: up to and including one Atomics call, and
\* on to the next one
Turn(st, c) ==
  LET a == Drain(st, c)
  IN IF a.stack[c] = <<>> THEN a ELSE Drain(Exec(a, c), c)

\* ------------------------------------------------------------- LockManager.request
Idle(c) == stack[c] = <<>>

\* collection.get(name), or the Lock that request constructs
Known(c, name) == collection[c][name] # NoLock
LockFor(c, name) == IF Known(c, name) THEN collection[c][name] ELSE Len(lk) + 1
LkGot(c, name, mode) ==
  IF Known(c, name) THEN lk ELSE Append(lk, NewLock(c, name, mode, Len(flag) + 1))
FlagGot(c, name) == IF Known(c, name) THEN flag ELSE Append(flag, UNLOCKED)
CollGot(c, name) ==
  IF Known(c, name) THEN collection
  ELSE [collection EXCEPT ![c][name] = Len(lk) + 1]
ChanGot(c, name, mode) ==
  IF Known(c, name) THEN chan ELSE Send(chan, c, CreateMsg(name, mode, Len(flag) + 1))
ModeConflict(c, name, mode) == Known(c, name) /\ lk[collection[c][name]].mode # mode

NewTask(c, l, kind, sig) ==
  [ctx |-> c, lock |-> l, kind |-> kind, signal |-> sig,
   aborted |-> FALSE, listener |-> FALSE, rejected |-> FALSE, entered |-> FALSE,
   calls |-> 0, outcome |-> "none", nullCalls |-> 0, lockCalls |-> 0, hres |-> "none",
   avail |-> FALSE, held |-> {}, pending |-> {}]

\* request of a name whose Lock has another mode: 'The mode can`t be changed'
RequestConflict(c, name, mode) ==
  /\ Idle(c)
  /\ ModeConflict(c, name, mode)
  /\ task' = Append(task, [NewTask(c, NoLock, "failed", "none")
                             EXCEPT !.calls = 1, !.outcome = "mode"])
  /\ UNCHANGED <<flag, lk, collection, run, timers, chan, stack>>

\* request with a signal that is already aborted: AbortError, after the Lock is made
RequestAborted(c, name, mode) ==
  /\ Idle(c)
  /\ ~ModeConflict(c, name, mode)
  /\ task' = Append(task, [NewTask(c, LockFor(c, name), "failed", "sig")
                             EXCEPT !.calls = 1, !.outcome = "abort", !.aborted = TRUE])
  /\ lk' = LkGot(c, name, mode)
  /\ flag' = FlagGot(c, name)
  /\ collection' = CollGot(c, name)
  /\ chan' = ChanGot(c, name, mode)
  /\ UNCHANGED <<run, timers, stack>>

\* an enter that calls tryEnter itself
EnterTries(l) == <<TryEnterFrame(l)>>

\* what enter calls on the Lock before it returns: nothing, tryEnter is left to
\* the timer
EnterCalls(l) == <<>>

\* request, ifAvailable false: Lock.enter.  sig is "none" (no signal option) or "sig"
RequestEnter(c, name, mode, sig) ==
  /\ Idle(c)
  /\ ~ModeConflict(c, name, mode)
  /\ LET l == LockFor(c, name)
         t == Len(task) + 1
         nt == NewTask(c, l, "enter", sig)
         st == [Cur EXCEPT
                  !.flag = FlagGot(c, name),
                  !.lk = [LkGot(c, name, mode) EXCEPT ![l].queue = QueuePush(@, t),
                                                      ![l].trying = TRUE],
                  !.task = Append(task,
                             IF sig = "none"
                               THEN \* signal.addEventListener of null: the executor
                                    \* throws a TypeError
                                    [nt EXCEPT !.calls = 1, !.outcome = "type"]
                               ELSE [nt EXCEPT !.listener = TRUE]),
                  !.chan = ChanGot(c, name, mode)]
     IN /\ Commit(Turn(Push(st, c, EnterCalls(l)), c))
        /\ timers' = IF sig = "none" THEN timers ELSE [timers EXCEPT ![c] = Append(@, l)]
  /\ collection' = CollGot(c, name)

\* request, ifAvailable true: Lock.tryDirect
RequestDirect(c, name, mode) ==
  /\ Idle(c)
  /\ ~ModeConflict(c, name, mode)
  /\ LET l == LockFor(c, name)
         t == Len(task) + 1
         lk1 == LkGot(c, name, mode)
         fl1 == FlagGot(c, name)
         b == lk1[l].buffer
         n1 == IF lk1[l].queue # <<>> THEN 1 ELSE 0
         n2 == IF ~ExchangeWon(fl1[b]) THEN 1 ELSE 0
     IN /\ flag' = [fl1 EXCEPT ![b] = LOCKED]
        /\ lk' = [lk1 EXCEPT ![l].owner = TRUE, ![l].cur = t]
        /\ task' = Append(task, [NewTask(c, l, "direct", "none")
                                   EXCEPT !.nullCalls = n1 + n2, !.lockCalls = 1,
                                          !.avail = (n1 + n2 = 0)])
        /\ run' = run \cup {[task |-> t, arg |-> "null", k |-> i] : i \in 1..(n1 + n2)}
                      \cup {[task |-> t, arg |-> "lock", k |-> 1]}
  /\ collection' = CollGot(c, name)
  /\ chan' = ChanGot(c, name, mode)
  /\ UNCHANGED <<timers, stack>>

\* ------------------------------------------------------------- LockManager.query
\* the argument of new LockManagerSnapshot(): query passes none
NoResources == [given |-> FALSE, locks |-> {}]

\* LockManagerSnapshot.constructor: held and pending of the Locks in resources;
\* for...of over undefined throws a TypeError
LockManagerSnapshot(resources) ==
  IF ~resources.given
    THEN [error |-> TRUE, held |-> {}, pending |-> {}]
    ELSE [error |-> FALSE,
          held |-> {l \in resources.locks : lk[l].owner},
          pending |-> UNION {{lk[l].queue[i] : i \in 1..Len(lk[l].queue)} :
                             l \in resources.locks}]

\* locks.query() in thread c; the call is kept in task with what it gave
Query(c) ==
  /\ Idle(c)
  /\ LET snapshot == LockManagerSnapshot(NoResources)
     IN task' = Append(task, [NewTask(c, NoLock, "query", "none")
                                EXCEPT !.calls = 1,
                                       !.outcome = IF snapshot.error THEN "type" ELSE "ok",
                                       !.held = snapshot.held,
                                       !.pending = snapshot.pending])
  /\ UNCHANGED <<flag, lk, collection, run, timers, chan, stack>>

\* ------------------------------------------------------------- callbacks
\* AbortController.abort: the signal's own listener and the listener of enter
Abort(t) ==
  /\ task[t].kind = "enter" /\ task[t].signal = "sig" /\ ~task[t].aborted
  /\ Idle(task[t].ctx)
  /\ task' = IF task[t].listener /\ ~task[t].entered
               THEN [Settle(task, t, "abort") EXCEPT ![t].aborted = TRUE,
                        ![t].listener = FALSE, ![t].rejected = TRUE]
               ELSE [task EXCEPT ![t].aborted = TRUE, ![t].listener = FALSE]
  /\ UNCHANGED <<flag, lk, collection, run, timers, chan, stack>>

\* the callback of setTimeout in enter
TimerFire(c) ==
  /\ Idle(c) /\ timers[c] # <<>>
  /\ timers' = [timers EXCEPT ![c] = Tail(@)]
  /\ Commit(Turn(Push(Cur, c, <<TryEnterFrame(Head(timers[c]))>>), c))
  /\ UNCHANGED collection

\* the promise of handler(this) settles: res is "ok" or "err"
CompleteLock(inv, res) ==
  LET t == inv.task
      c == task[t].ctx
      l == task[t].lock
      st == [Cur EXCEPT !.run = @ \ {inv}, !.task[t].hres = res]
  IN /\ inv \in run /\ inv.arg = "lock" /\ Idle(c)
     /\ Commit(Turn(Push(st, c,
            IF res = "ok"
              THEN <<LeaveFrame(l), SettleFrame(t, "ok"), CatchFrame(l, t)>>
              ELSE <<LeaveFrame(l), SettleFrame(t, "err")>>), c))
     /\ UNCHANGED <<collection, timers>>

\* the promise of handler(null) settles
CompleteNull(inv, res) ==
  LET t == inv.task
      c == task[t].ctx
  IN /\ inv \in run /\ inv.arg = "null" /\ Idle(c)
     /\ run' = run \ {inv}
     /\ task' = Settle(task, t, res)
     /\ UNCHANGED <<flag, lk, collection, timers, chan, stack>>

\* a receive that retries no Lock
RetryNever(L) == FALSE

\* lock.trying, the test of receive for a 'leave' message
RetryArmed(L) == L.trying

\* LockManager.receive in thread c of message m; ch is chan after m was taken
Receive(c, m, ch) ==
  IF m.kind = "create"
    THEN /\ lk' = Append(lk, NewLock(c, m.name, m.mode, m.buffer))
         /\ collection' = [collection EXCEPT ![c][m.name] = Len(lk) + 1]
         /\ chan' = ch
         /\ UNCHANGED <<flag, task, run, timers, stack>>
    ELSE /\ IF Known(c, m.name) /\ RetryArmed(lk[collection[c][m.name]])
              THEN Commit(Turn(Push([Cur EXCEPT !.chan = ch], c,
                                    <<TryEnterFrame(collection[c][m.name])>>), c))
              ELSE chan' = ch /\ UNCHANGED <<flag, lk, task, run, stack>>
         /\ UNCHANGED <<collection, timers>>

\* parentPort.on('message') of worker w
WorkerReceive(w) ==
  /\ Idle(w) /\ chan[w].down # <<>>
  /\ Receive(w, Head(chan[w].down), [chan EXCEPT ![w].down = Tail(@)])

\* worker.on('message') of the main thread, set up by attach(worker)
HubReceive(w) ==
  /\ Idle(Hub) /\ chan[w].up # <<>>
  /\ LET m == Head(chan[w].up)
     IN Receive(Hub, m, Relay([chan EXCEPT ![w].up = Tail(@)], w, m))

\* the rest of a callback, from the Atomics call it stopped at
Step(c) ==
  /\ stack[c] # <<>>
  /\ Commit(Turn(Cur, c))
  /\ UNCHANGED <<collection, timers>>

\* ------------------------------------------------------------- specification
\* the LockManager of every thread is constructed and the main thread has
\* attached the workers in W
Start(W) ==
  /\ chan = [w \in W |-> [up |-> <<>>, down |-> <<>>]]
  /\ flag = <<>>
  /\ lk = <<>>
  /\ collection = [c \in Ctx |-> [n \in Names |-> NoLock]]
  /\ task = <<>>
  /\ run = {}
  /\ timers = [c \in Ctx |-> <<>>]
  /\ stack = [c \in Ctx |-> <<>>]

Init == Start({"w1"})

\* fewer than n calls of locks.request were made
Budget(n) == Len(task) < n

\* the calls of locks.request, n at most; the mode is left at its default
Requests(n) ==
  \/ \E c \in Ctx, name \in Names : Budget(n) /\ RequestAborted(c, name, "exclusive")
  \/ \E c \in Ctx, name \in Names, sig \in {"none", "sig"} :
        Budget(n) /\ RequestEnter(c, name, "exclusive", sig)
  \/ \E c \in Ctx, name \in Names : Budget(n) /\ RequestDirect(c, name, "exclusive")

\* the callbacks of the event loops
Callbacks ==
  \/ \E t \in 1..Len(task) : Abort(t)
  \/ \E c \in Ctx : TimerFire(c)
  \/ \E inv \in run, res \in {"ok", "err"} : CompleteLock(inv, res)
  \/ \E inv \in run, res \in {"ok", "err"} : CompleteNull(inv, res)
  \/ \E w \in Workers : WorkerReceive(w)
  \/ \E w \in Workers : HubReceive(w)
  \/ \E c \in Ctx : Step(c)

Next == Requests(MaxReq) \/ Callbacks

Spec == Init /\ [][Next]_vars

\* the same program with one more call of locks.request
NextDeep == Requests(MaxReqDeep) \/ Callbacks

SpecDeep == Init /\ [][NextDeep]_vars

\* the program with two workers attached
InitRelay == Start({"w1", "w2"})

NextRelay == Requests(MaxReqRelay) \/ Callbacks

SpecRelay == InitRelay /\ [][NextRelay]_vars

\* the calls of locks.request with either mode, n at most
RequestsMode(n) ==
  \/ \E c \in Ctx, name \in Names, mode \in Modes :
        Budget(n) /\ RequestConflict(c, name, mode)
  \/ \E c \in Ctx, name \in Names, mode \in Modes :
        Budget(n) /\ RequestAborted(c, name, mode)
  \/ \E c \in Ctx, name \in Names, mode \in Modes, sig \in {"none", "sig"} :
        Budget(n) /\ RequestEnter(c, name, mode, sig)
  \/ \E c \in Ctx, name \in Names, mode \in Modes :
        Budget(n) /\ RequestDirect(c, name, mode)

\* the program with the mode option and locks.query in use
NextMode ==
  \/ RequestsMode(MaxReq)
  \/ \E c \in Ctx : Budget(MaxReq) /\ Query(c)
  \/ Callbacks

SpecMode == Init /\ [][NextMode]_vars

\* ------------------------------------------------------------- properties
Tasks == 1..Len(task)
Locks == 1..Len(lk)
Buffers == 1..Len(flag)
EnterTasks == {t \in Tasks : task[t].kind = "enter"}
DirectTasks == {t \in Tasks : task[t].kind = "direct"}

\* the handler invocations that were given the Lock and are still running
Holding(t) == [task |-> t, arg |-> "lock", k |-> 1] \in run

InQueue(t, l) == \E i \in 1..Len(lk[l].queue) : lk[l].queue[i] = t

\* no thread is inside a callback and none has a callback to run
Quiescent ==
  /\ \A c \in Ctx : stack[c] = <<>> /\ timers[c] = <<>>
  /\ \A w \in Workers : chan[w].up = <<>> /\ chan[w].down = <<>>
  /\ run = {}

\* C1: mutual exclusion: for every lock name, at most one handler of the tasks
\* made by enter is running with the Lock of that name, over all threads.
MutualExclusion ==
  \A name \in Names :
    Cardinality({t \in EnterTasks : Holding(t) /\ lk[task[t].lock].name = name}) <= 1

\* C2: owner uniqueness: for every SharedArrayBuffer, at most one Lock bound to
\* it has owner true.
OwnerUnique ==
  \A b \in Buffers : Cardinality({l \in Locks : lk[l].buffer = b /\ lk[l].owner}) <= 1

\* C3: release wakes waiters: when every callback has run and no message is in
\* flight, no task that is not cancelled and not settled is left in the queue of
\* a Lock whose flag is UNLOCKED.
NoLostWakeup ==
  Quiescent =>
    \A l \in Locks : \A t \in EnterTasks :
      ~(InQueue(t, l) /\ task[t].calls = 0 /\ ~task[t].aborted
        /\ flag[lk[l].buffer] = UNLOCKED)

\* C4: tryDirect invokes the handler exactly once: with the Lock when the queue
\* was empty and the exchange found the flag UNLOCKED, with null otherwise.
DirectOnce ==
  \A t \in DirectTasks :
    /\ task[t].nullCalls + task[t].lockCalls = 1
    /\ task[t].lockCalls = 1 <=> task[t].avail

\* C5: FIFO within a thread: the queue of a Lock holds its waiting tasks in the
\* order of their enter calls, and of two tasks of one Lock the later one is
\* never entered while the earlier one is not.
FifoWithinContext ==
  /\ \A l \in Locks : \A i, j \in 1..Len(lk[l].queue) :
        i < j => lk[l].queue[i] < lk[l].queue[j]
  /\ \A a, b \in EnterTasks :
        (a < b /\ task[a].lock = task[b].lock /\ task[b].entered) => task[a].entered

\* the Lock was won for task a while the later task b was waiting behind it
FifoWitness ==
  \E l \in Locks : \E a, b \in EnterTasks :
    /\ a < b /\ task[a].lock = l /\ InQueue(b, l)
    /\ lk[l].owner /\ lk[l].cur = a /\ ~lk[l].trying /\ Holding(a)

\* C6: cancellation before entry: a task whose signal aborts while the task is
\* queued is rejected with the abort error then, and its handler is never run,
\* also once it is taken from the queue.
CancelBeforeEntry ==
  \A t \in EnterTasks :
    task[t].rejected =>
      /\ task[t].calls = 1 /\ task[t].outcome = "abort"
      /\ task[t].lockCalls = 0 /\ ~Holding(t)

\* a task cancelled in the queue was taken from the queue and a later task of
\* the same Lock is running
CancelBeforeEntryWitness ==
  \E t, u \in EnterTasks :
    /\ task[t].rejected /\ task[t].entered
    /\ t < u /\ task[u].lock = task[t].lock /\ Holding(u)

\* C7, in the states: a task taken from the queue with its signal aborted has
\* not run its handler, is rejected with the abort error, and does not hold the
\* flag once the callback that took it has ended.
CancelAtEntryInv ==
  \A t \in EnterTasks :
    (task[t].entered /\ task[t].rejected) =>
      /\ task[t].lockCalls = 0 /\ task[t].outcome = "abort"
      /\ Idle(task[t].ctx) => ~(lk[task[t].lock].owner /\ lk[task[t].lock].cur = t)

\* C7, in the steps: when a thread runs the leave() that releases the flag, it
\* goes on to tryEnter in the same callback whenever a task is queued.
LeaveTriesNext ==
  \A c \in Ctx :
    (/\ stack[c] # <<>> /\ Head(stack[c]).op = "leave" /\ lk[Head(stack[c]).lock].owner
     /\ stack'[c] # stack[c]) =>
      LET l == Head(stack[c]).lock
      IN /\ ~lk'[l].owner
         /\ lk'[l].queue # <<>> =>
              (stack'[c] # <<>> /\ Head(stack'[c]) = TryEnterFrame(l))

\* C7: cancellation at entry: the flag is acquired and released without the
\* handler running, the task is rejected with the abort error, and the next
\* queued task is tried in the same callback.
CancelAtEntry == []CancelAtEntryInv /\ [][LeaveTriesNext]_vars

\* the task at the head was cancelled, was taken from the queue, and the task
\* behind it got the flag in the same callback
CancelAtEntryWitness ==
  \E t, u \in EnterTasks :
    /\ task[t].entered /\ task[t].rejected /\ task[t].lockCalls = 0
    /\ u = t + 1 /\ task[u].lock = task[t].lock
    /\ lk[task[u].lock].cur = u /\ Holding(u)
    /\ timers[task[t].ctx] # <<>>

\* C8: the flag is not left held: when a task whose handler ran with the Lock
\* is settled, the Lock is no longer owned for that task, and a task made by
\* enter is settled with the outcome of its own handler.
ReleasedBeforeSettled ==
  \A t \in Tasks :
    (task[t].lockCalls >= 1 /\ task[t].calls >= 1) =>
      /\ ~(lk[task[t].lock].owner /\ lk[task[t].lock].cur = t)
      /\ task[t].kind = "enter" => task[t].outcome = task[t].hres

\* a task made by enter is done with: its handler has settled and the callback
\* that handled it has ended
Finished(t) == task[t].entered /\ ~Holding(t) /\ Idle(task[t].ctx)

\* C9: exactly-once settlement: resolve or reject of a task made by enter is
\* never called twice, and has been called once the task is done with.
SettledOnce ==
  \A t \in EnterTasks :
    /\ task[t].calls <= 1
    /\ Finished(t) => task[t].calls = 1

\* C10: the signal is optional: a request without a signal is settled by
\* nothing but the result of its handler, which ran with the Lock.
SignalOptional ==
  \A t \in EnterTasks :
    (task[t].signal = "none" /\ task[t].calls >= 1) =>
      /\ task[t].lockCalls = 1
      /\ task[t].outcome = task[t].hres


\* the step is a request that failed with 'The mode can`t be changed'
ConflictStep ==
  /\ Len(task') = Len(task) + 1
  /\ task'[Len(task')].outcome = "mode"

\* the mode of the Lock that thread c has registered for a name stays as it is
ModeKept ==
  \A c \in Ctx : \A name \in Names :
    Known(c, name) =>
      /\ collection'[c][name] # NoLock
      /\ lk'[collection'[c][name]].mode = lk[collection[c][name]].mode

\* C11: mode immutability: a request that fails on the mode enqueues nothing,
\* sends nothing and leaves every Lock as it is, and the mode registered for a
\* name in a thread never changes after its first registration.
ModeImmutable ==
  [][/\ ConflictStep => UNCHANGED <<flag, lk, collection, run, timers, chan, stack>>
     /\ ModeKept]_vars


\* the Locks in the registry of thread c
Registered(c) == {collection[c][name] : name \in Names} \ {NoLock}

\* the step is a call of locks.query
QueryStep ==
  /\ Len(task') = Len(task) + 1
  /\ task'[Len(task')].kind = "query"

\* C12: snapshot: a call of locks.query gives, without an error, the Locks of
\* the calling thread's registry that have owner true as held and the tasks in
\* the queues of those Locks as pending, and changes no lock state.
SnapshotTrue ==
  [][QueryStep =>
       LET q == task'[Len(task')]
           mine == Registered(q.ctx)
       IN /\ q.outcome = "ok"
          /\ q.held = {l \in mine : lk[l].owner}
          /\ q.pending = {t \in Tasks : \E l \in mine : InQueue(t, l)}
          /\ UNCHANGED <<flag, lk, collection, run, timers, chan, stack>>]_vars


\* in this step thread c takes a message of the given kind and name from a port
Takes(c, kind, name) ==
  \E w \in Workers :
    \/ /\ c = w /\ chan[w].down # <<>>
       /\ Head(chan[w].down).kind = kind /\ Head(chan[w].down).name = name
       /\ chan'[w].down = Tail(chan[w].down)
    \/ /\ c = Hub /\ chan[w].up # <<>>
       /\ Head(chan[w].up).kind = kind /\ Head(chan[w].up).name = name
       /\ chan'[w].up = Tail(chan[w].up)

\* C13: create is idempotent on receipt: a thread that takes a 'create' message
\* for a name it has registered keeps the registered Lock, the same object with
\* its queue, owner, trying and flag.
CreateIdempotent ==
  [][\A c \in Ctx : \A name \in Names :
       (Known(c, name) /\ Takes(c, "create", name)) =>
         /\ collection'[c][name] = collection[c][name]
         /\ lk'[collection[c][name]] = lk[collection[c][name]]
         /\ Len(lk') = Len(lk)]_vars


\* a 'create' message for the name is in flight
CreateInFlight(name) ==
  \E w \in Workers : \E q \in {chan[w].up, chan[w].down} : \E i \in 1..Len(q) :
    q[i].kind = "create" /\ q[i].name = name

\* the Locks of a name that are registered, or have a task queued or running
InUse(name) ==
  {l \in Locks :
     /\ lk[l].name = name
     /\ \/ collection[lk[l].ctx][name] = l
        \/ lk[l].queue # <<>>
        \/ \E t \in Tasks : task[t].lock = l /\ Holding(t)}

\* C14: a single flag per name: once no 'create' message for a name is in
\* flight, the Locks registered for it in all threads, and every Lock of that
\* name with a task queued or running, are bound to one SharedArrayBuffer.
SingleFlag ==
  \A name \in Names :
    ~CreateInFlight(name) =>
      \A l1, l2 \in InUse(name) : lk[l1].buffer = lk[l2].buffer


\* the main thread takes the message at the head of the port of worker w
HubTakes(w) == chan[w].up # <<>> /\ chan'[w].up = Tail(chan[w].up)

\* worker w takes the message at the head of its port
WorkerTakes(w) == chan[w].down # <<>> /\ chan'[w].down = Tail(chan[w].down)

\* queue q2 is queue q with one message posted
Posted(q, q2) == Len(q2) = Len(q) + 1 /\ SubSeq(q2, 1, Len(q)) = q

\* a message of worker w goes to the main thread, which posts it to every
\* other worker once and not to w, also when applying it throws
RelayStep(w) ==
  HubTakes(w) =>
    /\ \A v \in Workers \ {w} :
         /\ chan'[v].down = Append(chan[v].down, Head(chan[w].up))
         /\ chan'[v].up = chan[v].up
    /\ chan'[w].down = chan[w].down

\* a message sent by worker w is posted to the main thread only
WorkerSendStep(w) ==
  Posted(chan[w].up, chan'[w].up) =>
    /\ chan'[w].down = chan[w].down
    /\ \A v \in Workers \ {w} : chan'[v] = chan[v]

\* a message sent by the main thread is posted to every worker once
HubSendStep(w) ==
  (Posted(chan[w].down, chan'[w].down) /\ \A v \in Workers : ~HubTakes(v)) =>
    \A v \in Workers :
      /\ chan'[v].down = Append(chan[v].down, chan'[w].down[Len(chan'[w].down)])
      /\ chan'[v].up = chan[v].up

\* a port changes by one message posted at its tail or taken at its head
PortStep(w) ==
  /\ chan'[w].up # chan[w].up => (HubTakes(w) \/ Posted(chan[w].up, chan'[w].up))
  /\ chan'[w].down # chan[w].down =>
       (WorkerTakes(w) \/ Posted(chan[w].down, chan'[w].down))
  /\ WorkerTakes(w) => \A v \in Workers \ {w} : chan'[v] = chan[v]

\* C15: star relay: a message sent by a thread is posted once to every other
\* thread and never back to its sender; a message that the main thread takes
\* from a worker is passed on to the other workers in the callback that takes
\* it, whatever applying it does; no port loses or repeats a message.
StarRelay ==
  [][\A w \in Workers :
       RelayStep(w) /\ WorkerSendStep(w) /\ HubSendStep(w) /\ PortStep(w)]_vars

\* a 'leave' message of worker w1 has reached worker w2, and nothing came back
\* to w1
StarRelayWitness ==
  /\ Workers = {"w1", "w2"}
  /\ \A t \in Tasks : task[t].ctx = "w1"
  /\ chan["w2"].down # <<>> /\ Head(chan["w2"].down).kind = "leave"
  /\ chan["w1"].down = <<>> /\ chan["w1"].up = <<>>
  /\ collection["w2"]["n"] # NoLock


EnterStep ==
  /\ Len(task') = Len(task) + 1
  /\ task'[Len(task')].kind = "enter"

\* C17: deferred retry: enter makes no attempt on the flag: when it returns, no
\* flag and no owner has changed (a Lock made by the request has its flag
\* UNLOCKED and no owner), the task is at the tail of the queue and is not
\* entered, no handler was run, and the retry is a timer behind the timers
\* that were already set.
DeferredRetry ==
  [][EnterStep =>
       LET t == Len(task')
           l == task'[t].lock
           c == task'[t].ctx
       IN /\ \A b \in Buffers : flag'[b] = flag[b]
          /\ \A k \in Locks : lk'[k].owner = lk[k].owner
          /\ l \notin Locks => ~lk'[l].owner /\ flag'[lk'[l].buffer] = UNLOCKED
          /\ lk'[l].queue = Append(IF l \in Locks THEN lk[l].queue ELSE <<>>, t)
          /\ ~task'[t].entered /\ run' = run /\ stack' = stack
          /\ task'[t].signal = "sig" => timers'[c] = Append(timers[c], l)]_vars

\* two requests of one thread are queued in call order on a free flag, and
\* none of the two timers has run
DeferredRetryWitness ==
  \E l \in Locks :
    /\ Len(lk[l].queue) = 2 /\ lk[l].queue[1] < lk[l].queue[2]
    /\ ~lk[l].owner /\ lk[l].trying /\ flag[lk[l].buffer] = UNLOCKED
    /\ timers[lk[l].ctx] = <<l, l>>


\* in this step thread c runs tryEnter on Lock l: from a timer, or as the next
\* part of the callback it is in
RunsTryEnter(c, l) ==
  \/ /\ stack[c] = <<>> /\ timers[c] # <<>> /\ Head(timers[c]) = l
     /\ timers'[c] = Tail(timers[c])
  \/ /\ stack[c] # <<>> /\ Head(stack[c]) = TryEnterFrame(l)
     /\ stack'[c] # stack[c]

\* C18: tryEnter is safe to call when nothing can be entered: with an empty
\* queue it changes nothing, and with the flag found LOCKED it leaves the
\* queue, owner, the flag and the settlement of every task as they are.  (In
\* a callback that goes on after tryEnter, the caller of leave() is settled in
\* the same step: only the tasks in the queue are compared then.)
SpuriousTryEnter ==
  [][\A c \in Ctx : \A l \in Locks :
       (/\ RunsTryEnter(c, l)
        /\ lk[l].queue = <<>> \/ flag[lk[l].buffer] = LOCKED) =>
         /\ flag' = flag /\ lk' = lk /\ run' = run
         /\ chan' = chan /\ collection' = collection
         /\ \A u \in Tasks : InQueue(u, l) => task'[u] = task[u]
         /\ stack[c] = <<>> => task' = task]_vars

\* the timer of a task ran after the task was entered by a leave(): the queue
\* was empty, and the call changed nothing, also not the owner of the Lock
SpuriousTryEnterWitness ==
  \E l \in Locks : \E t \in EnterTasks :
    /\ task[t].lock = l /\ Holding(t) /\ lk[l].owner /\ lk[l].cur = t
    /\ lk[l].queue = <<>> /\ timers[lk[l].ctx] = <<>> /\ Idle(lk[l].ctx)
    /\ \E u \in EnterTasks : u < t /\ task[u].lock = l /\ task[u].hres # "none"
    /\ Len(task) = 2


\* C19: only the holder unlocks: a tryDirect that found the queue non-empty or
\* the flag LOCKED never has owner set for its task, and while the handler of
\* a task that won the flag in tryEnter is running with the Lock, the flag of
\* its Lock stays LOCKED.
HolderUnlocks ==
  /\ \A t \in DirectTasks :
       ~task[t].avail => ~(lk[task[t].lock].owner /\ lk[task[t].lock].cur = t)
  /\ \A t \in EnterTasks :
       Holding(t) => flag[lk[task[t].lock].buffer] = LOCKED


\* C20: the retry is armed: between the callbacks of its thread, a Lock with
\* a task in its queue and owner false has trying set, so that the next
\* 'leave' message for its name makes it call tryEnter.
RetryArmedInv ==
  \A l \in Locks :
    (Idle(lk[l].ctx) /\ lk[l].queue # <<>> /\ ~lk[l].owner) => lk[l].trying

====
